---- MODULE Spec2Model ----
(***************************************************************************)
(* Model of the mfanalyzer return engine: calculator.py (SIP and lumpsum   *)
(* valuation, the XIRR bisection solver), the NAV provider of              *)
(* data_fetcher.py and the "Analyze Returns" loop of app.py.               *)
(*                                                                         *)
(* Two specifications share the variables:                                 *)
(*   Spec      one query: the per-fund valuation loop of one of the three  *)
(*             valuation paths, one loop iteration per step;               *)
(*   SpecXirr  one call of calculate_xirr, one bisection iteration per     *)
(*             step.                                                       *)
(*                                                                         *)
(* Dates are day ordinals of a calendar that starts on 1 January of a      *)
(* non-leap year.  A float is a record: a number, NaN or a signed          *)
(* infinity, with the IEEE rules numpy applies to NAV arithmetic.          *)
(***************************************************************************)
EXTENDS Integers, Sequences, FiniteSets, TLC

\* ------------------------------------------------------------------ bounds
MaxMonth == 1
MaxPoints == 2
NumFunds == 2

\* ------------------------------------------------------------------ floats
Num(n) == [kind |-> "num", v |-> n]
NaN == [kind |-> "nan", v |-> 0]
Inf(s) == [kind |-> "inf", v |-> s]

Sgn(n) == IF n > 0 THEN 1 ELSE IF n < 0 THEN -1 ELSE 0

isna(x) == x.kind = "nan"

IsFinite(x) == x.kind = "num"

FSign(x) == IF x.kind = "num" THEN Sgn(x.v) ELSE x.v

FAdd(a, b) ==
    IF isna(a) \/ isna(b) THEN NaN
    ELSE IF a.kind = "inf" /\ b.kind = "inf"
         THEN (IF a.v = b.v THEN a ELSE NaN)
    ELSE IF a.kind = "inf" THEN a
    ELSE IF b.kind = "inf" THEN b
    ELSE Num(a.v + b.v)

FMul(a, b) ==
    IF isna(a) \/ isna(b) THEN NaN
    ELSE IF a.kind = "inf" \/ b.kind = "inf"
         THEN (IF FSign(a) * FSign(b) = 0 THEN NaN ELSE Inf(FSign(a) * FSign(b)))
    ELSE Num(a.v * b.v)

\* numpy division: x/0 is a signed infinity, 0/0 is NaN, nothing is raised.
\* The amounts and NAVs of the model divide exactly.
FDiv(a, b) ==
    IF isna(a) \/ isna(b) THEN NaN
    ELSE IF a.kind = "inf" /\ b.kind = "inf" THEN NaN
    ELSE IF a.kind = "inf" THEN Inf(a.v * (IF FSign(b) < 0 THEN -1 ELSE 1))
    ELSE IF b.kind = "inf" THEN Num(0)
    ELSE IF b.v = 0 THEN (IF a.v = 0 THEN NaN ELSE Inf(Sgn(a.v)))
    ELSE Num(a.v \div b.v)

\* ---------------------------------------------------------------- calendar
MonthLen == <<31, 28, 31, 30, 31, 30, 31, 31, 30, 31, 30, 31>>

RECURSIVE MonthStart(_)
MonthStart(m) == IF m = 0 THEN 1 ELSE MonthStart(m - 1) + MonthLen[((m - 1) % 12) + 1]

Ord(m, d) == MonthStart(m) + d - 1

RECURSIVE MonthOfFrom(_, _)
MonthOfFrom(o, m) == IF o < MonthStart(m + 1) THEN m ELSE MonthOfFrom(o, m + 1)

MonthOf(o) == MonthOfFrom(o, 0)

DayOf(o) == o - MonthStart(MonthOf(o)) + 1

SampleDays == {1, 15}

DateSet == {Ord(m, d) : m \in 0..MaxMonth, d \in SampleDays}

\* -------------------------------------------------------------- NAV provider
NavValues == {NaN, Num(0), Num(2)}

Amounts == {4}

Min(S) == CHOOSE x \in S : \A y \in S : x <= y

Max(S) == CHOOSE x \in S : \A y \in S : y <= x

RECURSIVE sort_index(_)
sort_index(S) == IF S = {} THEN <<>> ELSE <<Min(S)>> \o sort_index(S \ {Min(S)})

\* What get_historical_nav can hand over: an empty frame, or the rows of the
\* feed with nav coerced to a float (NaN when not numeric), sorted by date.
get_historical_nav ==
    UNION {{[i \in 1..Cardinality(S) |->
                [date |-> sort_index(S)[i], nav |-> f[sort_index(S)[i]]]] :
            f \in [S -> NavValues]} :
           S \in {T \in SUBSET DateSet : Cardinality(T) <= MaxPoints}}

\* ------------------------------------------------------- shared frame helpers
dropna(df) == SelectSeq(df, LAMBDA r : ~isna(r.nav))

\* hist_data[(index >= start) & (index <= end)]
TradeWindow(df, s, e) == SelectSeq(df, LAMBDA r : r.date >= s /\ r.date <= e)

\* Mutant of asof: the first row at or before d instead of the last.
asofFirst(df, d) ==
    LET ok == {i \in 1..Len(df) : df[i].date <= d /\ ~isna(df[i].nav)}
    IN IF ok = {} THEN 0 ELSE Min(ok)

\* DataFrame.asof: position of the last row dated at or before d whose nav is
\* not NaN; 0 when there is none (the lookup then yields NaN).
asof(df, d) ==
    LET ok == {i \in 1..Len(df) : df[i].date <= d /\ ~isna(df[i].nav)}
    IN IF ok = {} THEN 0 ELSE Max(ok)

AsofNav(df, d) == IF asof(df, d) = 0 THEN NaN ELSE df[asof(df, d)].nav

NoDate == 0

AsofDate(df, d) == IF asof(df, d) = 0 THEN NoDate ELSE df[asof(df, d)].date

\* Mutant of RollForwardMS: start is rolled back to the first of its month.
RollBackMS(d) == MonthStart(MonthOf(d))

\* pd.date_range(start, end, freq='MS'): start is rolled forward to a month
\* start, then one month is added while the date does not pass end.
RollForwardMS(d) == IF DayOf(d) = 1 THEN d ELSE MonthStart(MonthOf(d) + 1)

RECURSIVE DateRangeFrom(_, _)
DateRangeFrom(cur, e) ==
    IF cur > e THEN <<>> ELSE <<cur>> \o DateRangeFrom(MonthStart(MonthOf(cur) + 1), e)

date_range(s, e) == DateRangeFrom(RollForwardMS(s), e)

\* ------------------------------------------------------------------- state
VARIABLES
    mode,                          \* "sip" | "lumpsum" | "app" | "xirr"
    pc,                            \* position in the function being run
    start_date, end_date, amount,  \* the query
    investment_dates,
    idx,                           \* funds processed so far
    fetched,                       \* the frame as get_historical_nav returned it
    hist_data,                     \* the same frame after the iteration
    trade_data,
    total_units, total_invested, scheme_cashflows, final_value,
    lookups,                       \* NAV lookups of the iteration
    outcome,                       \* how the iteration ended
    all_results, portfolio_cashflows,
    total_portfolio_investment, total_portfolio_final_value,
    warnings,                      \* funds named in an st.warning
    cashflows, max_iter,           \* the arguments of calculate_xirr
    low_rate, high_rate, mid_rate, \* grid positions inside the bracket
    f_low, iter,
    result,                        \* what calculate_xirr returned
    exit,                          \* the return statement taken
    raised                         \* the exception that left calculate_xirr

valVars == <<mode, pc, start_date, end_date, amount, investment_dates, idx,
             fetched, hist_data, trade_data, total_units, total_invested,
             scheme_cashflows, final_value, lookups, outcome, all_results,
             portfolio_cashflows, total_portfolio_investment,
             total_portfolio_final_value, warnings>>

xirrVars == <<cashflows, max_iter, low_rate, high_rate, mid_rate, f_low, iter,
              result, exit, raised>>

vars == <<valVars, xirrVars>>

\* the variables of the valuation loop other than mode and pc
valVars_rest == <<start_date, end_date, amount, investment_dates, idx,
                  fetched, hist_data, trade_data, total_units, total_invested,
                  scheme_cashflows, final_value, lookups, outcome, all_results,
                  portfolio_cashflows, total_portfolio_investment,
                  total_portfolio_final_value, warnings>>

\* ------------------------------------------------- exact integer arithmetic
\* The XIRR sum is evaluated exactly.  A natural number is a sequence of
\* limbs in base LimbBase, least significant first, without leading zeros.
LimbBase == 10000

RECURSIVE BigFromNat(_)
BigFromNat(n) == IF n = 0 THEN <<>> ELSE <<n % LimbBase>> \o BigFromNat(n \div LimbBase)

RECURSIVE BigAddC(_, _, _)
BigAddC(a, b, c) ==
    IF a = <<>> /\ b = <<>> THEN BigFromNat(c)
    ELSE LET x == (IF a = <<>> THEN 0 ELSE Head(a)) +
                  (IF b = <<>> THEN 0 ELSE Head(b)) + c
         IN <<x % LimbBase>> \o BigAddC(IF a = <<>> THEN a ELSE Tail(a),
                                        IF b = <<>> THEN b ELSE Tail(b),
                                        x \div LimbBase)

BigAdd(a, b) == BigAddC(a, b, 0)

RECURSIVE BigMulSmallC(_, _, _)
BigMulSmallC(a, k, c) ==
    IF a = <<>> THEN BigFromNat(c)
    ELSE LET x == Head(a) * k + c
         IN <<x % LimbBase>> \o BigMulSmallC(Tail(a), k, x \div LimbBase)

\* a * k for 0 <= k < LimbBase
BigMulSmall(a, k) == IF k = 0 THEN <<>> ELSE BigMulSmallC(a, k, 0)

BigShift(a) == IF a = <<>> THEN a ELSE <<0>> \o a

RECURSIVE BigMul(_, _)
BigMul(a, b) ==
    IF b = <<>> THEN <<>>
    ELSE BigAdd(BigMulSmall(a, Head(b)), BigShift(BigMul(a, Tail(b))))

RECURSIVE BigPow(_, _)
BigPow(a, n) == IF n = 0 THEN <<1>> ELSE BigMul(a, BigPow(a, n - 1))

RECURSIVE BigCmpAt(_, _, _)
BigCmpAt(a, b, i) ==
    IF i = 0 THEN 0
    ELSE IF a[i] > b[i] THEN 1
    ELSE IF a[i] < b[i] THEN -1
    ELSE BigCmpAt(a, b, i - 1)

BigCmp(a, b) ==
    IF Len(a) > Len(b) THEN 1
    ELSE IF Len(a) < Len(b) THEN -1
    ELSE BigCmpAt(a, b, Len(a))

\* ------------------------------------------------------------ XIRR solver
\* A rate is a position on a grid over the search bracket:
\*     rate(p) = -0.99 + 5.99 * p / GridOne,
\* so low_rate = -0.99 is position 0 and high_rate = 5.0 is position GridOne.
\* Every midpoint the bisection reaches with the default tolerance is a grid
\* position.  Cashflow values are Python numbers; cashflow dates are whole
\* years, so that (cf.date - cashflows[0].date).days / 365.0 is an integer.
GridOne == 16777216

DefaultMaxIter == 100

SmallMaxIter == 5

MaxFlows == 3

MaxYear == 1

FarYear == 200

FlowValues == {-2, 1, 3}

FlowYears == (0..MaxYear) \cup {FarYear}

FlowLists == UNION {[1..n -> [date : FlowYears, value : FlowValues]] : n \in 0..MaxFlows}

\* abs(high_rate - low_rate) < tol with tol = 1e-6:
\*     5.99 * w / GridOne < 1/1000000   iff   5990000 * w < GridOne
TolScaled == 5990000

WidthBelowTol(w) == w <= (GridOne - 1) \div TolScaled

\* (1 + rate) ** e in IEEE double arithmetic, at the bracket ends.
\* 0.01 ** e raises OverflowError for e <= -155 and underflows to 0.0 for
\* e >= 162; 6.0 ** e raises OverflowError for e >= 397 and underflows to 0.0
\* for e <= -416.  A list holding such an exponent never reaches a midpoint:
\* low_rate is evaluated first.
LowOverflowYears == 155

LowUnderflowYears == 162

HighOverflowYears == 397

HighUnderflowYears == 416

PowOutcome(p, e) ==
    IF p = 0 /\ e <= -LowOverflowYears THEN "OverflowError"
    ELSE IF p = 0 /\ e >= LowUnderflowYears THEN "zero"
    ELSE IF p = GridOne /\ e >= HighOverflowYears THEN "OverflowError"
    ELSE IF p = GridOne /\ e <= -HighUnderflowYears THEN "zero"
    ELSE "ok"

YearFrac(cfs, i) == cfs[i].date - cfs[1].date

\* The exception raised by the first term of the list comprehension that
\* fails: OverflowError from the power, ZeroDivisionError from value / 0.0.
RECURSIVE TermFailure(_, _, _)
TermFailure(p, cfs, i) ==
    IF i > Len(cfs) THEN "none"
    ELSE IF PowOutcome(p, YearFrac(cfs, i)) = "OverflowError" THEN "OverflowError"
    ELSE IF PowOutcome(p, YearFrac(cfs, i)) = "zero" THEN "ZeroDivisionError"
    ELSE TermFailure(p, cfs, i + 1)

\* 1 + rate(p) = RateNum(p) / RateDen
RateNum(p) == BigAdd(BigFromNat(GridOne), BigMulSmall(BigFromNat(p), 599))

RateDen == BigFromNat(100 * GridOne)

Abs(n) == IF n < 0 THEN -n ELSE n

\* Sum of |value| * RateDen^(e - emin) * RateNum^(emax - e) over the cashflows
\* of sign s: the terms value / (1 + rate)^e, all scaled by the same positive
\* factor RateNum^emax / RateDen^emin.
RECURSIVE ScaledSum(_, _, _, _, _, _)
ScaledSum(p, cfs, i, s, emin, emax) ==
    IF i > Len(cfs) THEN <<>>
    ELSE LET e == YearFrac(cfs, i)
             term == BigMulSmall(BigMul(BigPow(RateDen, e - emin),
                                        BigPow(RateNum(p), emax - e)),
                                 Abs(cfs[i].value))
         IN BigAdd(IF Sgn(cfs[i].value) = s THEN term ELSE <<>>,
                   ScaledSum(p, cfs, i + 1, s, emin, emax))

\* Sign of xirr_func(rate(p), cashflows).
XirrSign(p, cfs) ==
    LET es == {YearFrac(cfs, i) : i \in 1..Len(cfs)}
    IN BigCmp(ScaledSum(p, cfs, 1, 1, Min(es), Max(es)),
              ScaledSum(p, cfs, 1, -1, Min(es), Max(es)))

xirr_func(p, cfs) ==
    IF TermFailure(p, cfs, 1) # "none"
    THEN [exc |-> TermFailure(p, cfs, 1), sign |-> 0]
    ELSE [exc |-> "none", sign |-> XirrSign(p, cfs)]

\* except (ValueError, ZeroDivisionError)
Caught == {"ValueError", "ZeroDivisionError"}

\* Mutant of Bisect: the end that differs in sign from the midpoint moves.
BisectSwapped(lo, hi, mid, fl, fm) ==
    IF fm = fl THEN [low |-> lo, high |-> mid, f_low |-> fl]
    ELSE [low |-> mid, high |-> hi, f_low |-> fm]

\* One narrowing step: the end that shares the sign of the midpoint moves.
Bisect(lo, hi, mid, fl, fm) ==
    IF fm = fl THEN [low |-> mid, high |-> hi, f_low |-> fm]
    ELSE [low |-> lo, high |-> mid, f_low |-> fl]

Zero == [zero |-> TRUE, mid |-> 0]

Pct(p) == [zero |-> FALSE, mid |-> p]

XirrReturn(r, how) ==
    /\ pc' = "returned"
    /\ result' = r
    /\ exit' = how
    /\ UNCHANGED raised

XirrFail(exc) ==
    IF exc \in Caught
    THEN XirrReturn(Zero, "caught")
    ELSE /\ pc' = "raised"
         /\ raised' = exc
         /\ UNCHANGED <<result, exit>>

\* calculate_xirr up to the loop: the length check, the function at both
\* ends of the bracket and the sign check.
XirrCall ==
    /\ mode = "xirr" /\ pc = "call"
    /\ UNCHANGED <<mode, valVars_rest, cashflows, max_iter, mid_rate, iter>>
    /\ IF Len(cashflows) < 2
       THEN XirrReturn(Zero, "short") /\ UNCHANGED <<low_rate, high_rate, f_low>>
       ELSE LET fl == xirr_func(0, cashflows)
                fh == xirr_func(GridOne, cashflows)
            IN IF fl.exc # "none"
               THEN XirrFail(fl.exc) /\ UNCHANGED <<low_rate, high_rate, f_low>>
               ELSE IF fh.exc # "none"
               THEN XirrFail(fh.exc) /\ UNCHANGED <<low_rate, high_rate, f_low>>
               ELSE IF fl.sign * fh.sign > 0
               THEN XirrReturn(Zero, "no_bracket")
                    /\ UNCHANGED <<low_rate, high_rate, f_low>>
               ELSE /\ pc' = "loop"
                    /\ low_rate' = 0
                    /\ high_rate' = GridOne
                    /\ f_low' = fl.sign
                    /\ UNCHANGED <<result, exit, raised>>

\* One iteration of "for _ in range(max_iter)".
XirrIter ==
    /\ mode = "xirr" /\ pc = "loop" /\ iter < max_iter
    /\ UNCHANGED <<mode, valVars_rest, cashflows, max_iter>>
    /\ LET mid == (low_rate + high_rate) \div 2
           fm == xirr_func(mid, cashflows)
           nxt == Bisect(low_rate, high_rate, mid, f_low, fm.sign)
       IN /\ mid_rate' = mid
          /\ iter' = iter + 1
          /\ IF WidthBelowTol(high_rate - low_rate)
             THEN XirrReturn(Pct(mid), "tol") /\ UNCHANGED <<low_rate, high_rate, f_low>>
             ELSE IF fm.exc # "none"
             THEN XirrFail(fm.exc) /\ UNCHANGED <<low_rate, high_rate, f_low>>
             ELSE /\ low_rate' = nxt.low
                  /\ high_rate' = nxt.high
                  /\ f_low' = nxt.f_low
                  /\ UNCHANGED <<pc, result, exit, raised>>

\* The loop ran max_iter times: return mid_rate * 100.
XirrExhaust ==
    /\ mode = "xirr" /\ pc = "loop" /\ iter = max_iter
    /\ XirrReturn(Pct(mid_rate), "cap")
    /\ UNCHANGED <<mode, valVars_rest, cashflows, max_iter, low_rate, high_rate,
                   mid_rate, f_low, iter>>

XirrIdle ==
    /\ cashflows = <<>>
    /\ max_iter = DefaultMaxIter
    /\ low_rate = 0
    /\ high_rate = GridOne
    /\ mid_rate = 0
    /\ f_low = 0
    /\ iter = 0
    /\ result = Zero
    /\ exit = "none"
    /\ raised = "none"

\* -------------------------------------------------- SIP loop of calculator.py
\* Mutant of ValidNav: the sign of the NAV is not checked.
ValidNavNotNa(nav) == ~isna(nav)

\* if pd.notna(nav_on_date) and nav_on_date > 0
ValidNav(nav) == ~isna(nav) /\ FSign(nav) > 0

\* One pass of "for inv_date in investment_dates" folded over the dates.
RECURSIVE SipLoop(_, _, _, _)
SipLoop(trade, dates, amt, acc) ==
    IF dates = <<>> THEN acc
    ELSE LET d == Head(dates)
             nav_on_date == AsofNav(trade, d)
             look == [kind |-> "asof", at |-> d, used |-> AsofDate(trade, d),
                      nav |-> nav_on_date]
             bought == ValidNav(nav_on_date)
             next == IF bought
                     THEN [units |-> FAdd(acc.units, FDiv(Num(amt), nav_on_date)),
                           invested |-> acc.invested + amt,
                           cashflows |-> Append(acc.cashflows,
                                                [date |-> d, value |-> Num(-amt)]),
                           lookups |-> Append(acc.lookups, look)]
                     ELSE [acc EXCEPT !.lookups = Append(acc.lookups, look)]
         IN SipLoop(trade, Tail(dates), amt, next)

\* The loop of app.py: no validity check, every date counts as invested.
RECURSIVE AppLoop(_, _, _, _)
AppLoop(trade, dates, amt, acc) ==
    IF dates = <<>> THEN acc
    ELSE LET d == Head(dates)
             nav_on_date == AsofNav(trade, d)
             look == [kind |-> "asof", at |-> d, used |-> AsofDate(trade, d),
                      nav |-> nav_on_date]
             next == [units |-> FAdd(acc.units, FDiv(Num(amt), nav_on_date)),
                      invested |-> acc.invested + amt,
                      cashflows |-> acc.cashflows,
                      lookups |-> Append(acc.lookups, look)]
         IN AppLoop(trade, Tail(dates), amt, next)

\* trade_data.iloc[-1], the row that values the position
ExitLookup(trade, e) ==
    [kind |-> "exit", at |-> e, used |-> trade[Len(trade)].date,
     nav |-> trade[Len(trade)].nav]

Acc0 == [units |-> Num(0), invested |-> 0, cashflows |-> <<>>, lookups |-> <<>>]

FundName(i) == i

Row(name, invested, final) ==
    [name |-> name, total_invested |-> invested, final_value |-> final]

\* Locals of an iteration that ended before they were bound.
Unbound ==
    /\ trade_data' = <<>>
    /\ total_units' = Num(0)
    /\ total_invested' = 0
    /\ scheme_cashflows' = <<>>
    /\ final_value' = Num(0)
    /\ lookups' = <<>>

Unemitted ==
    UNCHANGED <<all_results, portfolio_cashflows, total_portfolio_investment,
                total_portfolio_final_value>>

queryVars == <<mode, pc, start_date, end_date, amount, investment_dates>>

\* The head of each valuation function: empty accumulators and the month-start
\* investment dates of the query window.
Analyze ==
    /\ mode \in {"sip", "lumpsum", "app"} /\ pc = "call"
    /\ pc' = "running"
    /\ investment_dates' = date_range(start_date, end_date)
    /\ all_results' = <<>>
    /\ portfolio_cashflows' = <<>>
    /\ total_portfolio_investment' = 0
    /\ total_portfolio_final_value' = Num(0)
    /\ UNCHANGED <<mode, start_date, end_date, amount, idx, fetched, hist_data,
                   trade_data, total_units, total_invested, scheme_cashflows,
                   final_value, lookups, outcome, warnings>>
    /\ UNCHANGED xirrVars

\* calculate_sip_returns, one iteration of the loop over the selected funds.
SipFund ==
    /\ mode = "sip" /\ pc = "running" /\ idx < NumFunds
    /\ UNCHANGED xirrVars
    /\ \E df \in get_historical_nav :
         LET cleaned == dropna(df)
             trade == TradeWindow(cleaned, start_date, end_date)
             acc == SipLoop(trade, investment_dates, amount, Acc0)
             last_valid_nav_row == trade[Len(trade)]
             final == FMul(acc.units, last_valid_nav_row.nav)
             flows == Append(acc.cashflows,
                             [date |-> last_valid_nav_row.date, value |-> final])
         IN /\ fetched' = df
            /\ idx' = idx + 1
            /\ UNCHANGED <<queryVars, warnings, total_portfolio_investment,
                           total_portfolio_final_value>>
            /\ IF df = <<>>
               THEN /\ outcome' = "empty"
                    /\ hist_data' = df
                    /\ Unbound
                    /\ UNCHANGED <<all_results, portfolio_cashflows>>
               ELSE /\ hist_data' = cleaned
                    /\ trade_data' = trade
                    /\ IF trade = <<>>
                       THEN /\ outcome' = "no_window"
                            /\ total_units' = Num(0)
                            /\ total_invested' = 0
                            /\ scheme_cashflows' = <<>>
                            /\ final_value' = Num(0)
                            /\ lookups' = <<>>
                            /\ UNCHANGED <<all_results, portfolio_cashflows>>
                       ELSE /\ total_units' = acc.units
                            /\ total_invested' = acc.invested
                            /\ lookups' = IF acc.invested = 0 THEN acc.lookups
                                           ELSE Append(acc.lookups, ExitLookup(trade, end_date))
                            /\ IF acc.invested = 0
                               THEN /\ outcome' = "no_investment"
                                    /\ scheme_cashflows' = acc.cashflows
                                    /\ final_value' = Num(0)
                                    /\ UNCHANGED <<all_results, portfolio_cashflows>>
                               ELSE /\ final_value' = final
                                    /\ IF isna(final)
                                       THEN /\ outcome' = "nan_value"
                                            /\ scheme_cashflows' = acc.cashflows
                                            /\ UNCHANGED <<all_results,
                                                           portfolio_cashflows>>
                                       ELSE /\ outcome' = "result"
                                            /\ scheme_cashflows' = flows
                                            /\ portfolio_cashflows' =
                                                   portfolio_cashflows \o flows
                                            /\ all_results' =
                                                   Append(all_results,
                                                          Row(FundName(idx + 1),
                                                              acc.invested, final))

\* calculate_lumpsum_returns, one iteration of the loop over the selected funds.
LumpsumFund ==
    /\ mode = "lumpsum" /\ pc = "running" /\ idx < NumFunds
    /\ UNCHANGED xirrVars
    /\ \E df \in get_historical_nav :
         LET trade == TradeWindow(df, start_date, end_date)
             start_record == trade[1]
             end_record == trade[Len(trade)]
             units_bought == FDiv(Num(amount), start_record.nav)
             final == FMul(units_bought, end_record.nav)
         IN /\ fetched' = df
            /\ hist_data' = df
            /\ idx' = idx + 1
            /\ UNCHANGED <<queryVars, warnings, portfolio_cashflows>>
            /\ IF df = <<>>
               THEN outcome' = "empty" /\ Unbound /\ Unemitted
               ELSE IF trade = <<>>
               THEN outcome' = "no_window" /\ Unbound /\ Unemitted
               ELSE /\ outcome' = "result"
                    /\ trade_data' = trade
                    /\ total_units' = units_bought
                    /\ total_invested' = amount
                    /\ final_value' = final
                    /\ scheme_cashflows' = <<>>
                    /\ lookups' = <<[kind |-> "entry", at |-> start_date,
                                     used |-> start_record.date,
                                     nav |-> start_record.nav],
                                    ExitLookup(trade, end_date)>>
                    /\ total_portfolio_investment' =
                           total_portfolio_investment + amount
                    /\ total_portfolio_final_value' =
                           FAdd(total_portfolio_final_value, final)
                    /\ all_results' = Append(all_results,
                                             Row(FundName(idx + 1), amount, final))

\* app.py, one iteration of the "Analyze Returns" loop over the selected funds.
AppFund ==
    /\ mode = "app" /\ pc = "running" /\ idx < NumFunds
    /\ UNCHANGED xirrVars
    /\ \E df \in get_historical_nav :
         LET trade == TradeWindow(df, start_date, end_date)
             acc == AppLoop(trade, investment_dates, amount, Acc0)
             latest_nav == trade[Len(trade)].nav
             final == FMul(acc.units, latest_nav)
         IN /\ fetched' = df
            /\ hist_data' = df
            /\ idx' = idx + 1
            /\ UNCHANGED <<queryVars, portfolio_cashflows>>
            /\ IF df = <<>>
               THEN /\ outcome' = "empty"
                    /\ warnings' = Append(warnings, FundName(idx + 1))
                    /\ Unbound /\ Unemitted
               ELSE IF trade = <<>>
               THEN /\ outcome' = "no_window"
                    /\ warnings' = Append(warnings, FundName(idx + 1))
                    /\ Unbound /\ Unemitted
               ELSE /\ trade_data' = trade
                    /\ total_units' = acc.units
                    /\ total_invested' = acc.invested
                    /\ lookups' = IF acc.invested = 0 THEN acc.lookups
                                   ELSE Append(acc.lookups, ExitLookup(trade, end_date))
                    /\ scheme_cashflows' = <<>>
                    /\ UNCHANGED warnings
                    /\ IF acc.invested = 0
                       THEN outcome' = "no_investment" /\ final_value' = Num(0)
                            /\ Unemitted
                       ELSE /\ outcome' = "result"
                            /\ final_value' = final
                            /\ total_portfolio_investment' =
                                   total_portfolio_investment + acc.invested
                            /\ total_portfolio_final_value' =
                                   FAdd(total_portfolio_final_value, final)
                            /\ all_results' =
                                   Append(all_results,
                                          Row(FundName(idx + 1), acc.invested, final))

\* The loop over the selected funds is exhausted: the function returns.
Return ==
    /\ mode \in {"sip", "lumpsum", "app"} /\ pc = "running" /\ idx = NumFunds
    /\ pc' = "done"
    /\ UNCHANGED xirrVars
    /\ UNCHANGED <<mode, start_date, end_date, amount, investment_dates, idx,
                   fetched, hist_data, trade_data, total_units, total_invested,
                   scheme_cashflows, final_value, lookups, outcome, all_results,
                   portfolio_cashflows, total_portfolio_investment,
                   total_portfolio_final_value, warnings>>

ValIdle ==
    /\ idx = 0
    /\ fetched = <<>>
    /\ hist_data = <<>>
    /\ trade_data = <<>>
    /\ total_units = Num(0)
    /\ total_invested = 0
    /\ scheme_cashflows = <<>>
    /\ final_value = Num(0)
    /\ lookups = <<>>
    /\ outcome = "none"
    /\ all_results = <<>>
    /\ portfolio_cashflows = <<>>
    /\ total_portfolio_investment = 0
    /\ total_portfolio_final_value = Num(0)
    /\ warnings = <<>>

\* A query that passed the validation of app.py: start strictly before end.
Init ==
    /\ mode \in {"sip", "lumpsum", "app"}
    /\ pc = "call"
    /\ start_date \in DateSet
    /\ end_date \in DateSet
    /\ start_date < end_date
    /\ amount \in Amounts
    /\ investment_dates = <<>>
    /\ ValIdle
    /\ XirrIdle

Next == Analyze \/ SipFund \/ LumpsumFund \/ AppFund \/ Return

Spec == Init /\ [][Next]_vars

\* One call calculate_xirr(cashflows, max_iter=max_iter).
InitXirr ==
    /\ mode = "xirr"
    /\ pc = "call"
    /\ start_date = Ord(0, 1)
    /\ end_date = Ord(0, 1)
    /\ amount = 0
    /\ investment_dates = <<>>
    /\ ValIdle
    /\ cashflows \in FlowLists
    /\ max_iter \in {DefaultMaxIter, SmallMaxIter}
    /\ low_rate = 0
    /\ high_rate = GridOne
    /\ mid_rate = 0
    /\ f_low = 0
    /\ iter = 0
    /\ result = Zero
    /\ exit = "none"
    /\ raised = "none"

NextXirr == XirrCall \/ XirrIter \/ XirrExhaust

SpecXirr == InitXirr /\ [][NextXirr]_vars

\* ================================================================ properties
ValModes == {"sip", "lumpsum", "app"}

PointsOf(df) == {df[i].date : i \in 1..Len(df)}

\* The positions of the investment dates whose latest trade-window point at or
\* before them carries a positive NAV.
MatchedDates ==
    {i \in 1..Len(investment_dates) :
        \E j \in 1..Len(trade_data) :
            /\ trade_data[j].date <= investment_dates[i]
            /\ \A k \in 1..Len(trade_data) :
                  trade_data[k].date <= investment_dates[i]
                      => trade_data[k].date <= trade_data[j].date
            /\ trade_data[j].nav.kind = "num"
            /\ trade_data[j].nav.v > 0}

NavAt(d) ==
    (CHOOSE r \in {trade_data[j] : j \in 1..Len(trade_data)} :
        r.date = Max({x \in PointsOf(trade_data) : x <= d})).nav

RECURSIVE UnitsOver(_)
UnitsOver(S) ==
    IF S = {} THEN 0
    ELSE LET i == Min(S)
         IN (amount \div NavAt(investment_dates[i]).v) + UnitsOver(S \ {i})

Contributions == {k \in 1..Len(scheme_cashflows) : FSign(scheme_cashflows[k].value) < 0}

\* C1: in calculate_sip_returns an investment date without a trade-window
\* point at or before it, or whose looked-up NAV is missing or not positive,
\* buys no units, invests nothing and appends no cashflow: total_invested is
\* monthly_investment times the number of matched dates, and the scheme has
\* exactly one negative cashflow per matched date.
C1_SipSkip ==
    (mode = "sip" /\ idx > 0) =>
        /\ total_invested = amount * Cardinality(MatchedDates)
        /\ Cardinality(Contributions) = Cardinality(MatchedDates)
        /\ {scheme_cashflows[k].date : k \in Contributions}
               = {investment_dates[i] : i \in MatchedDates}
        /\ total_units = Num(UnitsOver(MatchedDates))

C1_Witness ==
    /\ mode = "sip" /\ outcome = "result"
    /\ MatchedDates # {}
    /\ \E i \in 1..Len(investment_dates) : i \notin MatchedDates

\* C2: calculate_xirr never raises to its caller; a failure while evaluating
\* xirr_func is caught and the call returns 0.0.
C2_NeverRaises ==
    mode = "xirr" => /\ pc # "raised"
                     /\ exit = "caught" => result = Zero

\* C3 as stated: the investment dates are the first day of every month from
\* start_date's month through end_date's month, the first day of start_date's
\* own month included.
C3_EveryMonthOfWindow ==
    (mode \in ValModes /\ pc # "call") =>
        investment_dates =
            [i \in 1..(MonthOf(end_date) - MonthOf(start_date) + 1) |->
                 MonthStart(MonthOf(start_date) + i - 1)]

\* C3 amended: the investment dates are, in increasing order, exactly the
\* first days of a month that lie inside [start_date, end_date]; the first day
\* of start_date's own month is one of them only when start_date is the 1st.
C3_MonthStartsInWindow ==
    (mode \in ValModes /\ pc # "call") =>
        /\ \A i \in 1..(Len(investment_dates) - 1) :
               investment_dates[i] < investment_dates[i + 1]
        /\ {investment_dates[i] : i \in 1..Len(investment_dates)}
               = {o \in start_date..end_date : DayOf(o) = 1}

C3_Witness ==
    /\ mode \in ValModes /\ pc # "call"
    /\ DayOf(start_date) # 1
    /\ investment_dates # <<>>
    /\ investment_dates[1] = MonthStart(MonthOf(start_date) + 1)

\* C4: on every valuation path a fund whose final value is not a finite
\* number gets no result row and adds nothing to the portfolio totals or to
\* the pooled cashflows.
C4_NonFiniteExcluded ==
    mode \in ValModes =>
        /\ \A k \in 1..Len(all_results) : IsFinite(all_results[k].final_value)
        /\ IsFinite(total_portfolio_final_value)
        /\ \A k \in 1..Len(portfolio_cashflows) : IsFinite(portfolio_cashflows[k].value)

RECURSIVE SumInvested(_)
SumInvested(rows) ==
    IF rows = <<>> THEN 0 ELSE Head(rows).total_invested + SumInvested(Tail(rows))

RECURSIVE SumFinal(_)
SumFinal(rows) ==
    IF rows = <<>> THEN Num(0) ELSE FAdd(Head(rows).final_value, SumFinal(Tail(rows)))

\* C5: the portfolio totals are the sums over the funds that got a result
\* row, and every fund without a row is named in a warning.
C5_TotalsAndWarnings ==
    (mode \in ValModes /\ pc = "done") =>
        /\ mode \in {"lumpsum", "app"} =>
               /\ total_portfolio_investment = SumInvested(all_results)
               /\ total_portfolio_final_value = SumFinal(all_results)
        /\ \A i \in 1..NumFunds :
               (\A k \in 1..Len(all_results) : all_results[k].name # FundName(i))
                   => \E w \in 1..Len(warnings) : warnings[w] = FundName(i)

\* C6: the lumpsum entry is the earliest point dated on or after start_date
\* and buys amount / entry_nav units, the exit is the latest point dated on or
\* before end_date and values them; a SIP date uses the latest trade-window
\* point dated on or before it; no lookup uses a point after its lookup date,
\* before start_date or after end_date.
C6_LookupDirection ==
    (mode \in ValModes /\ idx > 0) =>
        /\ \A k \in 1..Len(lookups) :
               lookups[k].used # NoDate =>
                   /\ lookups[k].used >= start_date
                   /\ lookups[k].used <= end_date
                   /\ lookups[k].kind \in {"asof", "exit"} => lookups[k].used <= lookups[k].at
                   /\ lookups[k].kind = "entry" => lookups[k].used >= lookups[k].at
                   /\ \E j \in 1..Len(fetched) :
                          /\ fetched[j].date = lookups[k].used
                          /\ fetched[j].nav = lookups[k].nav
        /\ (mode = "lumpsum" /\ outcome = "result") =>
               /\ lookups[1].used = Min({d \in PointsOf(fetched) : d >= start_date})
               /\ lookups[2].used = Max({d \in PointsOf(fetched) : d <= end_date})
               /\ total_units = FDiv(Num(amount), lookups[1].nav)
               /\ final_value = FMul(total_units, lookups[2].nav)
        /\ mode = "sip" =>
               \A k \in 1..Len(lookups) :
                   lookups[k].kind = "asof" =>
                       lookups[k].used =
                           (IF {d \in PointsOf(trade_data) : d <= lookups[k].at} = {}
                            THEN NoDate
                            ELSE Max({d \in PointsOf(trade_data) : d <= lookups[k].at}))

C6_Witness ==
    /\ mode = "lumpsum" /\ outcome = "result"
    /\ \E d \in PointsOf(fetched) : d < start_date
    /\ lookups[1].used > start_date
    /\ lookups[2].used < end_date

AllPositive(cfs) == \A i \in 1..Len(cfs) : cfs[i].value > 0

AllNegative(cfs) == \A i \in 1..Len(cfs) : cfs[i].value < 0

ReturnedZeroUnsolved == pc = "returned" /\ result = Zero /\ iter = 0

\* C7: calculate_xirr returns 0.0 without bisecting for a list of fewer than
\* two cashflows and whenever the function has the same strict sign at both
\* ends of the bracket; in particular for every list of two or more cashflows
\* that are all positive or all negative.
C7_DegenerateZero ==
    (mode = "xirr" /\ pc # "call") =>
        /\ Len(cashflows) < 2 => ReturnedZeroUnsolved
        /\ (/\ Len(cashflows) >= 2
            /\ TermFailure(0, cashflows, 1) = "none"
            /\ TermFailure(GridOne, cashflows, 1) = "none"
            /\ XirrSign(0, cashflows) * XirrSign(GridOne, cashflows) > 0)
               => ReturnedZeroUnsolved
        /\ (Len(cashflows) >= 2 /\ (AllPositive(cashflows) \/ AllNegative(cashflows)))
               => ReturnedZeroUnsolved

\* C8: the valuation leaves the frame that get_historical_nav handed over as
\* it was: same rows, same NAV values.
C8_FrameUnchanged ==
    (mode \in ValModes /\ idx > 0) => hist_data = fetched

RECURSIVE Pow2(_)
Pow2(n) == IF n = 0 THEN 1 ELSE 2 * Pow2(n - 1)

\* C9: with max_iter = 100 and tol = 1e-6 the bisection always leaves through
\* the tolerance exit before the iteration cap; in every iteration
\* low_rate < high_rate stay inside the bracket, the width has been halved
\* once per iteration, and the function does not have the same strict sign at
\* low_rate and high_rate; the result is the midpoint of a bracket narrower
\* than the tolerance and lies within [-99, 500] percent.
C9_Bisection ==
    (mode = "xirr" /\ max_iter = DefaultMaxIter) =>
        /\ exit # "cap"
        /\ pc = "loop" =>
               /\ iter < 25
               /\ iter < max_iter
               /\ 0 <= low_rate /\ low_rate < high_rate /\ high_rate <= GridOne
               /\ (high_rate - low_rate) * Pow2(iter) = GridOne
               /\ XirrSign(low_rate, cashflows) * XirrSign(high_rate, cashflows) <= 0
        /\ exit = "tol" =>
               /\ pc = "returned"
               /\ iter <= max_iter
               /\ WidthBelowTol(high_rate - low_rate)
               /\ low_rate < high_rate
               /\ 2 * result.mid = low_rate + high_rate
               /\ 0 <= result.mid /\ result.mid <= GridOne

C9_Witness ==
    /\ mode = "xirr" /\ max_iter = DefaultMaxIter
    /\ exit = "tol"
    /\ low_rate > 0 /\ high_rate < GridOne

\* C10: the cashflow list that calculate_sip_returns passes to calculate_xirr
\* is chronological: the contributions in increasing date order, then the one
\* terminal cashflow, dated on or after every contribution.
C10_Chronological ==
    (mode = "sip" /\ outcome = "result") =>
        /\ scheme_cashflows # <<>>
        /\ Contributions = 1..(Len(scheme_cashflows) - 1)
        /\ \A k \in 1..(Len(scheme_cashflows) - 1) :
               scheme_cashflows[k].date <= scheme_cashflows[k + 1].date
        /\ scheme_cashflows[Len(scheme_cashflows)].date = trade_data[Len(trade_data)].date
====
